---- MODULE Spec2Model ----
(***************************************************************************)
(* Second-order propagation core of backpack:                              *)
(*   - core/derivatives/utils.py: shape-convention conversions and the     *)
(*     three wrappers that apply them around a derivative handler;         *)
(*   - extensions/secondorder/utils.py: Kronecker-factor algebra;          *)
(*   - secondorder/hbp/conv2d.py: HBP handlers of the convolution family;  *)
(*   - extensions/secondorder/diag_hessian/__init__.py: accumulation.      *)
(*                                                                         *)
(* A tensor is a record [shape, data]: data is the row-major (contiguous)  *)
(* listing of the elements, as torch stores a contiguous tensor.  Element  *)
(* values are integers; the conversions only move elements and the         *)
(* Kronecker algebra only multiplies and adds them.                        *)
(***************************************************************************)
EXTENDS Integers, Sequences, FiniteSets, TLC

\* Largest size of any tensor axis (batch N, directions V, feature axes).
MaxDim == 2
\* Element values of an input tensor are seed * (flat index) + 1, seed in 0..MaxSeed.
MaxSeed == 1

(***************************************************************************)
(* Tensors                                                                 *)
(***************************************************************************)
RECURSIVE Prod(_)
Prod(s) == IF s = <<>> THEN 1 ELSE Head(s) * Prod(Tail(s))

Tensor(shape, data) == [shape |-> shape, data |-> data]

NoTensor == [shape |-> <<0>>, data |-> <<>>]

Numel(t) == Len(t.data)

Rank(t) == Len(t.shape)

Fill(shape, seed) == Tensor(shape, [i \in 1..Prod(shape) |-> seed * (i - 1) + 1])

Front(s) == SubSeq(s, 1, Len(s) - 1)

Ok(t) == [kind |-> "ok", val |-> t]

Err(k) == [kind |-> k, val |-> NoTensor]

\* Tensor.reshape on a contiguous tensor: same elements in the same row-major order.
Reshape(t, shape) ==
  IF Prod(shape) = Numel(t) THEN Ok(Tensor(shape, t.data)) ELSE Err("RuntimeError")

\* einsum("ndv->vnd", t): out[v, n, d] = t[n, d, v].
Einsum_ndv_vnd(t) ==
  LET N == t.shape[1]
      D == t.shape[2]
      V == t.shape[3]
  IN  Tensor(<<V, N, D>>,
             [k \in 1..(V * N * D) |->
                LET v == (k - 1) \div (N * D)
                    n == ((k - 1) \div D) % N
                    d == (k - 1) % D
                IN  t.data[(n * D + d) * V + v + 1]])

\* einsum("vnc->ncv", t): out[n, c, v] = t[v, n, c].
Einsum_vnc_ncv(t) ==
  LET V == t.shape[1]
      N == t.shape[2]
      C == t.shape[3]
  IN  Tensor(<<N, C, V>>,
             [k \in 1..(V * N * C) |->
                LET n == (k - 1) \div (C * V)
                    c == ((k - 1) \div V) % C
                    v == (k - 1) % V
                IN  t.data[(v * N + n) * C + c + 1]])

\* einsum("vi->iv", t): out[i, v] = t[v, i].
Einsum_vi_iv(t) ==
  LET V == t.shape[1]
      I == t.shape[2]
  IN  Tensor(<<I, V>>,
             [k \in 1..(V * I) |->
                LET i == (k - 1) \div V
                    v == (k - 1) % V
                IN  t.data[v * I + i + 1]])

\* Tensor.unsqueeze(-1)
add_V_dim(old_mat) == Tensor(old_mat.shape \o <<1>>, old_mat.data)

\* remove_V_dim with the squeeze forgotten.
remove_V_dim_kept(old_mat) == old_mat

\* Tensor.squeeze(-1): drops the last axis when (and only when) its size is 1.
remove_V_dim(old_mat) ==
  IF Rank(old_mat) > 0 /\ old_mat.shape[Rank(old_mat)] = 1
  THEN Tensor(Front(old_mat.shape), old_mat.data)
  ELSE old_mat

(***************************************************************************)
(* Shape conventions (core/derivatives/utils.py)                           *)
(***************************************************************************)
\* Shared body of new_output_convention and new_input_convention, which differ
\* only in the recorded shape they read.
NewConvention(old_mat, recorded_shape) ==
  IF Rank(old_mat) = 0 THEN Err("IndexError")
  ELSE LET N == recorded_shape[1]
           V == old_mat.shape[Rank(old_mat)]
           features_shape == Tail(recorded_shape)
           features == Prod(features_shape)
       IN  IF old_mat.shape # <<N, features, V>> THEN Err("AssertionError")
           ELSE Reshape(Einsum_ndv_vnd(old_mat), <<V, N>> \o features_shape)

\* Shared body of old_output_convention and old_input_convention.
OldConvention(new_mat, recorded_shape) ==
  IF Rank(new_mat) = 0 THEN Err("IndexError")
  ELSE LET N == recorded_shape[1]
           V == new_mat.shape[1]
           features_shape == Tail(recorded_shape)
           features == Prod(features_shape)
       IN  IF new_mat.shape # <<V, N>> \o features_shape THEN Err("AssertionError")
           ELSE LET r == Reshape(new_mat, <<V, N, features>>)
                IN  IF r.kind = "ok" THEN Ok(Einsum_vnc_ncv(r.val)) ELSE r

new_output_convention(old_mat, module) == NewConvention(old_mat, module.output_shape)

new_input_convention(old_mat, module) == NewConvention(old_mat, module.input0_shape)

old_input_convention(new_mat, module) == OldConvention(new_mat, module.input0_shape)

\* old_output_convention with the reshape to [N, features, V] but without the
\* transposition "vnc->ncv".
old_output_convention_untransposed(new_mat, module) ==
  IF Rank(new_mat) = 0 THEN Err("IndexError")
  ELSE LET N == module.output_shape[1]
           V == new_mat.shape[1]
           out_features_shape == Tail(module.output_shape)
       IN  IF new_mat.shape # <<V, N>> \o out_features_shape THEN Err("AssertionError")
           ELSE Reshape(new_mat, <<N, Prod(out_features_shape), V>>)

old_output_convention(new_mat, module) == OldConvention(new_mat, module.output_shape)

\* old_weight_convention with N read from the layer's recorded output shape,
\* as the other conventions read it, instead of from the input.
old_weight_convention_layer_batch(new_mat, module, sum_batch) ==
  IF Rank(new_mat) < 2 THEN Err("IndexError")
  ELSE LET V == new_mat.shape[1]
           N == module.output_shape[1]
           weight_shape == module.weight_shape
           weight_numel == Prod(weight_shape)
       IN  IF sum_batch
           THEN IF new_mat.shape # <<V>> \o weight_shape THEN Err("AssertionError")
                ELSE LET r == Reshape(new_mat, <<V, weight_numel>>)
                     IN  IF r.kind = "ok" THEN Ok(Einsum_vi_iv(r.val)) ELSE r
           ELSE IF new_mat.shape # <<V, N>> \o weight_shape THEN Err("AssertionError")
                ELSE LET r == Reshape(new_mat, <<V, N, weight_numel>>)
                     IN  IF r.kind = "ok" THEN Ok(Einsum_vnc_ncv(r.val)) ELSE r

old_weight_convention(new_mat, module, sum_batch) ==
  IF Rank(new_mat) < 2 THEN Err("IndexError")
  ELSE LET V == new_mat.shape[1]
           N == new_mat.shape[2]
           weight_shape == module.weight_shape
           weight_numel == Prod(weight_shape)
       IN  IF sum_batch
           THEN IF new_mat.shape # <<V>> \o weight_shape THEN Err("AssertionError")
                ELSE LET r == Reshape(new_mat, <<V, weight_numel>>)
                     IN  IF r.kind = "ok" THEN Ok(Einsum_vi_iv(r.val)) ELSE r
           ELSE IF new_mat.shape # <<V, N>> \o weight_shape THEN Err("AssertionError")
                ELSE LET r == Reshape(new_mat, <<V, N, weight_numel>>)
                     IN  IF r.kind = "ok" THEN Ok(Einsum_vnc_ncv(r.val)) ELSE r

(***************************************************************************)
(* Derivative handlers wrapped by the three decorators.  The handlers are  *)
(* per-layer code outside the converter; these stand for a layer that acts *)
(* on each (v, n) slice by a fixed linear map, which keeps V and N.        *)
(***************************************************************************)
RECURSIVE SumSeq(_)
SumSeq(s) == IF s = <<>> THEN 0 ELSE Head(s) + SumSeq(Tail(s))

Coef(j, i) == 1 + ((j + 2 * i) % 3)

\* mat [V, N, *src] -> [V, N, *dst_dims]: out[v, n, j] = sum_i Coef(j, i) * mat[v, n, i].
LinearMap(mat, dst_dims) ==
  LET V == mat.shape[1]
      N == mat.shape[2]
      Fs == Numel(mat) \div (V * N)
      Fd == Prod(dst_dims)
  IN  Tensor(<<V, N>> \o dst_dims,
             [k \in 1..(V * N * Fd) |->
                LET vn == (k - 1) \div Fd
                    j == (k - 1) % Fd
                IN  SumSeq([i \in 1..Fs |-> Coef(j, i - 1) * mat.data[vn * Fs + i]])])

\* Sum of a [V, N, F] tensor over its batch axis: [V, F].
SumOverBatch(t) ==
  LET V == t.shape[1]
      N == t.shape[2]
      F == Numel(t) \div (V * N)
  IN  Tensor(<<V>> \o SubSeq(t.shape, 3, Len(t.shape)),
             [k \in 1..(V * F) |->
                LET v == (k - 1) \div F
                    f == (k - 1) % F
                IN  SumSeq([n \in 1..N |-> t.data[(v * N + (n - 1)) * F + f + 1]])])

\* jmp of a transposed-Jacobian product: [V, N, *out] -> [V, N, *in].
handler_jac_t(module, mat, sum_batch) == LinearMap(mat, Tail(module.input0_shape))

\* jmp of a forward-Jacobian product: [V, N, *in] -> [V, N, *out].
handler_jac(module, mat, sum_batch) == LinearMap(mat, Tail(module.output_shape))

\* jmp of a parameter-Jacobian product: [V, N, *out] -> [V, (N,) *weight_shape].
handler_weight_jac_t(module, mat, sum_batch) ==
  LET per_sample == LinearMap(mat, module.weight_shape)
  IN  IF sum_batch THEN SumOverBatch(per_sample) ELSE per_sample

(***************************************************************************)
(* The three wrappers.  Each returns the record of one wrapped call: the   *)
(* flag is_vec, what the handler received (handler_in) and returned        *)
(* (handler_out), the converted result before the V axis is dropped        *)
(* (converted) and the final outcome (out).                                *)
(***************************************************************************)
WrapperRecord(is_vec, called, handler_in, handler_out, converted, out) ==
  [is_vec |-> is_vec, called |-> called, handler_in |-> handler_in,
   handler_out |-> handler_out, converted |-> converted, out |-> out]

\* jmp is handler_jac_t.
jac_t_new_shape_convention(module, mat, sum_batch) ==
  LET is_vec == Rank(mat) = 2
      mat_used == IF is_vec THEN add_V_dim(mat) ELSE mat
      new_mat == new_output_convention(mat_used, module)
  IN  IF new_mat.kind # "ok"
      THEN WrapperRecord(is_vec, FALSE, NoTensor, NoTensor, NoTensor, new_mat)
      ELSE LET result == handler_jac_t(module, new_mat.val, sum_batch)
               old == old_input_convention(result, module)
           IN  IF old.kind # "ok"
               THEN WrapperRecord(is_vec, TRUE, new_mat.val, result, NoTensor, old)
               ELSE WrapperRecord(is_vec, TRUE, new_mat.val, result, old.val,
                                  Ok(IF is_vec THEN remove_V_dim(old.val) ELSE old.val))

\* sum_batch is kwargs["sum_batch"], True when the caller passes none.
\* jmp is handler_weight_jac_t.
weight_jac_t_new_shape_convention(module, mat, sum_batch) ==
  LET is_vec == Rank(mat) = 2
      mat_used == IF is_vec THEN add_V_dim(mat) ELSE mat
      new_mat == new_output_convention(mat_used, module)
  IN  IF new_mat.kind # "ok"
      THEN WrapperRecord(is_vec, FALSE, NoTensor, NoTensor, NoTensor, new_mat)
      ELSE LET result == handler_weight_jac_t(module, new_mat.val, sum_batch)
               old == old_weight_convention(result, module, sum_batch)
           IN  IF old.kind # "ok"
               THEN WrapperRecord(is_vec, TRUE, new_mat.val, result, NoTensor, old)
               ELSE WrapperRecord(is_vec, TRUE, new_mat.val, result, old.val,
                                  Ok(IF is_vec THEN remove_V_dim(old.val) ELSE old.val))

\* jmp is handler_jac.
jac_new_shape_convention(module, mat, sum_batch) ==
  LET is_vec == Rank(mat) = 2
      mat_used == IF is_vec THEN add_V_dim(mat) ELSE mat
      new_mat == new_input_convention(mat_used, module)
  IN  IF new_mat.kind # "ok"
      THEN WrapperRecord(is_vec, FALSE, NoTensor, NoTensor, NoTensor, new_mat)
      ELSE LET result == handler_jac(module, new_mat.val, sum_batch)
               old == old_output_convention(result, module)
           IN  IF old.kind # "ok"
               THEN WrapperRecord(is_vec, TRUE, new_mat.val, result, NoTensor, old)
               ELSE WrapperRecord(is_vec, TRUE, new_mat.val, result, old.val,
                                  Ok(IF is_vec THEN remove_V_dim(old.val) ELSE old.val))

(***************************************************************************)
(* Kronecker-factor algebra (extensions/secondorder/utils.py)              *)
(***************************************************************************)
is_tensor_of_order(order, tensor) == Rank(tensor) = order

is_matrix(tensor) == is_tensor_of_order(2, tensor)

all_tensors_of_order(order, tensors) ==
  \A i \in 1..Len(tensors) : is_tensor_of_order(order, tensors[i])

\* matrix_from_two_kron_facs with the equation "ij,kl->ijkl": the axes of the
\* two factors are not interleaved before the view.
matrix_from_two_kron_facs_ijkl(A, B) ==
  IF Rank(A) # 2 \/ Rank(B) # 2 THEN Err("AssertionError")
  ELSE LET I == A.shape[1]
           J == A.shape[2]
           K == B.shape[1]
           L == B.shape[2]
       IN  Reshape(
             Tensor(<<I, J, K, L>>,
                    [p \in 1..(I * J * K * L) |->
                       LET i == (p - 1) \div (J * K * L)
                           j == ((p - 1) \div (K * L)) % J
                           k == ((p - 1) \div L) % K
                           l == (p - 1) % L
                       IN  A.data[i * J + j + 1] * B.data[k * L + l + 1]]),
             <<I * K, J * L>>)

\* einsum("ij,kl->ikjl", (A, B)).contiguous().view(mat_shape):
\* T[i, k, j, l] = A[i, j] * B[k, l], listed row-major and read as a matrix.
matrix_from_two_kron_facs(A, B) ==
  IF ~is_matrix(A) \/ ~is_matrix(B) THEN Err("AssertionError")
  ELSE LET I == A.shape[1]
           J == A.shape[2]
           K == B.shape[1]
           L == B.shape[2]
       IN  Reshape(
             Tensor(<<I, K, J, L>>,
                    [p \in 1..(I * K * J * L) |->
                       LET i == (p - 1) \div (K * J * L)
                           k == ((p - 1) \div (J * L)) % K
                           j == ((p - 1) \div L) % J
                           l == (p - 1) % L
                       IN  A.data[i * J + j + 1] * B.data[k * L + l + 1]]),
             <<I * K, J * L>>)

\* The loop of matrix_from_kron_facs without the assertion on the first factor.
RECURSIVE KronLoop_first_unchecked(_, _, _)
KronLoop_first_unchecked(factors, n, mat) ==
  IF n > Len(factors) \/ mat.kind \notin {"ok", "None"} THEN mat
  ELSE IF mat.kind = "None"
       THEN KronLoop_first_unchecked(factors, n + 1, Ok(factors[n]))
       ELSE KronLoop_first_unchecked(factors, n + 1,
                                     matrix_from_two_kron_facs(mat.val, factors[n]))

\* The loop of matrix_from_kron_facs from factor n on; mat is the outcome so
\* far, of kind "None" while no factor has been taken.
RECURSIVE KronLoop(_, _, _)
KronLoop(factors, n, mat) ==
  IF n > Len(factors) \/ mat.kind \notin {"ok", "None"} THEN mat
  ELSE IF mat.kind = "None"
       THEN KronLoop(factors, n + 1,
                     IF is_matrix(factors[n]) THEN Ok(factors[n])
                     ELSE Err("AssertionError"))
       ELSE KronLoop(factors, n + 1, matrix_from_two_kron_facs(mat.val, factors[n]))

\* Of kind "None" (the call returns None, no error) for the empty list.
matrix_from_kron_facs(factors) == KronLoop(factors, 1, Err("None"))

\* get_letters' default max_letters
max_letters == 26

Alphabet ==
  <<"a", "b", "c", "d", "e", "f", "g", "h", "i", "j", "k", "l", "m",
    "n", "o", "p", "q", "r", "s", "t", "u", "v", "w", "x", "y", "z">>

\* A generator that starts over at "a" when the letters run out.
get_letters_cycling == Alphabet \o Alphabet

\* The letters the generator yields, in order: chr(ord("a") + i), i < max_letters.
get_letters == SubSeq(Alphabet, 1, max_letters)

\* The loop of vp_einsum_equation: n iterations left, taken letters consumed.
\* next(letters) on the exhausted generator raises StopIteration.
RECURSIVE EquationLoop(_, _, _, _, _)
EquationLoop(n, taken, in_str, v_str, out_str) ==
  IF n = 0
  THEN [kind |-> "ok", eq |-> v_str \o in_str \o <<"->">> \o out_str]
  ELSE IF taken + 2 > Len(get_letters)
       THEN [kind |-> "StopIteration", eq |-> <<>>]
       ELSE LET row_idx == get_letters[taken + 1]
                col_idx == get_letters[taken + 2]
            IN  EquationLoop(n - 1, taken + 2,
                             in_str \o <<",", row_idx, col_idx>>,
                             v_str \o <<col_idx>>,
                             out_str \o <<row_idx>>)

\* vp_einsum_equation with each factor written column letter first.
RECURSIVE EquationLoop_transposed(_, _, _, _, _)
EquationLoop_transposed(n, taken, in_str, v_str, out_str) ==
  IF n = 0
  THEN [kind |-> "ok", eq |-> v_str \o in_str \o <<"->">> \o out_str]
  ELSE IF taken + 2 > Len(get_letters)
       THEN [kind |-> "StopIteration", eq |-> <<>>]
       ELSE LET row_idx == get_letters[taken + 1]
                col_idx == get_letters[taken + 2]
            IN  EquationLoop_transposed(n - 1, taken + 2,
                                        in_str \o <<",", col_idx, row_idx>>,
                                        v_str \o <<col_idx>>,
                                        out_str \o <<row_idx>>)

vp_einsum_equation_transposed(num_factors) ==
  EquationLoop_transposed(num_factors, 0, <<>>, <<>>, <<>>)

\* The equation is a string; it is kept as the sequence of its symbols,
\* "->" counting as one.
vp_einsum_equation(num_factors) == EquationLoop(num_factors, 0, <<>>, <<>>, <<>>)

(***************************************************************************)
(* einsum, as far as the equations of vp_einsum_equation need it: the      *)
(* equation is split at "->" and ","; every letter ranges over the size of *)
(* the axes it labels; the letters missing from the output are summed.     *)
(***************************************************************************)
RECURSIVE SplitOn(_, _)
SplitOn(str, sep) ==
  IF \A i \in 1..Len(str) : str[i] # sep THEN <<str>>
  ELSE LET p == CHOOSE i \in 1..Len(str) :
                  str[i] = sep /\ \A j \in 1..(i - 1) : str[j] # sep
       IN  <<SubSeq(str, 1, p - 1)>> \o SplitOn(SubSeq(str, p + 1, Len(str)), sep)

RECURSIVE Concat(_)
Concat(strs) == IF strs = <<>> THEN <<>> ELSE Head(strs) \o Concat(Tail(strs))

\* Row-major offset of the element of a tensor of this shape at index idx.
RECURSIVE Offset(_, _, _)
Offset(shape, idx, n) ==
  IF n = 0 THEN 0 ELSE Offset(shape, idx, n - 1) * shape[n] + idx[n]

\* Index along axis j (sizes in shape) of the element at row-major offset k.
Unravel(k, shape, j) == (k \div Prod(SubSeq(shape, j + 1, Len(shape)))) % shape[j]

\* The term of the sum under the letter assignment env.
EinsumTerm(operands, subs, env) ==
  Prod([i \in 1..Len(operands) |->
             operands[i].data[
               Offset(operands[i].shape,
                      [j \in 1..Len(subs[i]) |-> env[subs[i][j]]],
                      Len(subs[i])) + 1]])

RECURSIVE EinsumSum(_, _, _, _, _)
EinsumSum(operands, subs, dim, summed, env) ==
  IF summed = <<>> THEN EinsumTerm(operands, subs, env)
  ELSE SumSeq([x \in 1..dim[Head(summed)] |->
                 EinsumSum(operands, subs, dim, Tail(summed),
                           (Head(summed) :> (x - 1)) @@ env)])

Einsum(equation, operands) ==
  LET sides == SplitOn(equation, "->")
      subs == SplitOn(sides[1], ",")
      outs == sides[2]
      all == Concat(subs)
      letters == {all[i] : i \in 1..Len(all)}
      sizes(l) == {operands[i].shape[j] :
                     <<i, j>> \in {q \in (1..Len(subs)) \X (1..Len(all)) :
                                      q[2] <= Len(subs[q[1]]) /\ subs[q[1]][q[2]] = l}}
  IN  IF \/ Len(subs) # Len(operands)
         \/ \E i \in 1..Len(subs) : Len(subs[i]) # Rank(operands[i])
      THEN Err("RuntimeError")
      ELSE IF \E l \in letters : Cardinality(sizes(l)) # 1
      THEN Err("RuntimeError")
      ELSE LET dim == [l \in letters |-> CHOOSE d \in sizes(l) : TRUE]
               firsts == {i \in 1..Len(all) : \A j \in 1..(i - 1) : all[j] # all[i]}
               IsSummed(i) == i \in firsts /\ \A o \in 1..Len(outs) : outs[o] # all[i]
               positions == [i \in 1..Len(all) |-> i]
               summedAt == SelectSeq(positions, IsSummed)
               summed == [i \in 1..Len(summedAt) |-> all[summedAt[i]]]
               out_shape == [o \in 1..Len(outs) |-> dim[outs[o]]]
           IN  Ok(Tensor(out_shape,
                         [k \in 1..Prod(out_shape) |->
                            EinsumSum(operands, subs, dim, summed,
                                      [l \in {outs[o] : o \in 1..Len(outs)} |->
                                         Unravel(k - 1, out_shape,
                                                 CHOOSE o \in 1..Len(outs) : outs[o] = l)])]))

\* vp_from_kron_facs(factors): the closure vp, as the column sizes and the
\* equation it captured, or the error raised while building it.
vp_from_kron_facs(factors) ==
  IF ~all_tensors_of_order(2, factors)
  THEN [kind |-> "AssertionError", col_dims |-> <<>>, equation |-> <<>>]
  ELSE IF factors = <<>>
  THEN [kind |-> "ValueError", col_dims |-> <<>>, equation |-> <<>>]
  ELSE LET equation == vp_einsum_equation(Len(factors))
       IN  IF equation.kind # "ok"
           THEN [kind |-> equation.kind, col_dims |-> <<>>, equation |-> <<>>]
           ELSE [kind |-> "ok",
                 col_dims |-> [i \in 1..Len(factors) |-> factors[i].shape[2]],
                 equation |-> equation.eq]

\* vp(v) of the closure built for factors.
vp(closure, factors, v) ==
  IF Rank(v) # 1 THEN Err("AssertionError")
  ELSE LET v_reshaped == Reshape(v, closure.col_dims)
       IN  IF v_reshaped.kind # "ok" THEN v_reshaped
           ELSE LET product == Einsum(closure.equation, <<v_reshaped.val>> \o factors)
                IN  IF product.kind # "ok" THEN product
                    ELSE Reshape(product.val, <<Numel(product.val)>>)

multiply_vec_with_kron_facs(factors, v) ==
  LET closure == vp_from_kron_facs(factors)
  IN  IF closure.kind # "ok" THEN Err(closure.kind) ELSE vp(closure, factors, v)

(***************************************************************************)
(* HBP handlers of the convolution family (secondorder/hbp/conv2d.py)      *)
(***************************************************************************)
\* The strategy selectors.  BackpropStrategy and ExpectationApproximation
\* are enumerations of two tags each.
BackpropStrategies == {"sqrt", "batch_average"}

ExpectationApproximations == {"no_average", "average_param_jac"}

is_batch_average(bp_strategy) == bp_strategy = "batch_average"

is_sqrt(bp_strategy) == bp_strategy = "sqrt"

should_average_param_jac(ea_strategy) == ea_strategy = "average_param_jac"

\* convUtils.separate_channels_and_pixels: [batch, channels * pixels, classes]
\* viewed as [batch, channels, pixels, classes].
separate_channels_and_pixels(module, tensor) ==
  LET batch == tensor.shape[1]
      channels == module.out_channels
      pixels == tensor.shape[2] \div channels
      classes == tensor.shape[3]
  IN  Reshape(tensor, <<batch, channels, pixels, classes>>)

\* tensor / d, element by element: the elements are kept as the numerators
\* over the common denominator d.
Div(tensor, d) == [shape |-> tensor.shape, data |-> tensor.data, over |-> d]

\* The outcome of a handler operation: the Kronecker factor list returned, or
\* the error raised, or "None" when the method falls off its end.
Returned(factors) == [kind |-> "ok", factors |-> factors]

Raised(kind) == [kind |-> kind, factors |-> <<>>]

\* _factor_from_sqrt, the same in both classes.
factor_from_sqrt(module, ext) ==
  LET sqrt_ggn == separate_channels_and_pixels(module, ext.mat).val
      summed == Einsum(<<"b", "i", "j", "c", "->", "b", "i", "c">>, <<sqrt_ggn>>).val
  IN  Einsum(<<"b", "i", "c", ",", "b", "l", "c", "->", "i", "l">>, <<summed, summed>>).val

\* _factors_from_input, the same in both classes but for where X comes from:
\* the unfolded input0, or homogeneous_unfolded_input(); X is the layer's
\* recorded module.unfolded_input in both.  The generator yields one factor
\* or raises at its first step.
factors_from_input(module, ext) ==
  LET X == module.unfolded_input
      batch == X.shape[1]
  IN  IF should_average_param_jac(ext.ea_strategy) THEN Raised("NotImplementedError")
      ELSE Returned(<<Div(Einsum(<<"b", "i", "k", ",", "b", "j", "k", "->", "i", "j">>,
                                 <<X, X>>).val, batch)>>)

\* _weight_for_sqrt with the two kinds of factor in the other order.
weight_for_sqrt_input_first(module, ext) ==
  LET from_input == factors_from_input(module, ext)
  IN  IF from_input.kind # "ok" THEN from_input
      ELSE Returned(from_input.factors \o <<factor_from_sqrt(module, ext)>>)

weight_for_sqrt(module, ext) ==
  LET kron_factors == <<factor_from_sqrt(module, ext)>>
      from_input == factors_from_input(module, ext)
  IN  IF from_input.kind # "ok" THEN from_input
      ELSE Returned(kron_factors \o from_input.factors)

bias_for_sqrt(module, ext) == Returned(<<factor_from_sqrt(module, ext)>>)

HBPConv2d_weight(module, ext) ==
  IF is_batch_average(ext.bp_strategy) THEN Raised("NotImplementedError")
  ELSE IF is_sqrt(ext.bp_strategy) THEN weight_for_sqrt(module, ext)
  ELSE Raised("None")

\* bias, were it to consult the expectation approximation as weight does.
HBPConv2d_bias_gated(module, ext) ==
  IF is_batch_average(ext.bp_strategy) THEN Raised("NotImplementedError")
  ELSE IF is_sqrt(ext.bp_strategy)
       THEN IF should_average_param_jac(ext.ea_strategy)
            THEN Raised("NotImplementedError")
            ELSE bias_for_sqrt(module, ext)
  ELSE Raised("None")

HBPConv2d_bias(module, ext) ==
  IF is_batch_average(ext.bp_strategy) THEN Raised("NotImplementedError")
  ELSE IF is_sqrt(ext.bp_strategy) THEN bias_for_sqrt(module, ext)
  ELSE Raised("None")

HBPConv2dConcat_weight(module, ext) ==
  IF is_batch_average(ext.bp_strategy) THEN Raised("NotImplementedError")
  ELSE IF is_sqrt(ext.bp_strategy) THEN weight_for_sqrt(module, ext)
  ELSE Raised("None")

(***************************************************************************)
(* Accumulation at a branch point (diag_hessian/__init__.py)               *)
(***************************************************************************)
\* A backpropagated quantity of the diagonal-Hessian extensions is a Python
\* set or dict.  It is kept as a set of <<key, value>> pairs with no key
\* twice; a set is the dict whose values are its keys.
DictKeys(d) == {p[1] : p \in d}

\* existing | other: the pairs of other, and the pairs of existing whose key
\* other does not hold.
DictOr(existing, other) ==
  {p \in existing : p[1] \notin DictKeys(other)} \cup other

DiagHessian_accumulate_backpropagated_quantities(existing, other) ==
  DictOr(existing, other)

BatchDiagHessian_accumulate_backpropagated_quantities(existing, other) ==
  DictOr(existing, other)

(***************************************************************************)
(* State                                                                   *)
(***************************************************************************)
VARIABLES
  component,  \* which part of the core this behaviour exercises
  module,     \* the layer record: recorded shapes (and, for HBP, activations)
  calls,      \* converter calls made so far, each [fn, arg, sum_batch, out]
  wcall,      \* the wrapped handler call made, [fn, arg, sum_batch, rec]
  kron,       \* the Kronecker-algebra call made
  extension,  \* the extension's strategies and the matrix in its context
  hbp,        \* the HBP handler call made
  accumulated,\* the quantity accumulated at a branch point
  received    \* the contributions merged there so far, oldest first

vars == <<component, module, calls, wcall, kron, extension, hbp, accumulated, received>>

\* Longest chain of converter calls, each fed the previous call's result.
MaxCalls == 2

Sizes == 1..MaxDim

Seeds == 0..MaxSeed

\* Feature shapes of rank 1 and 2.
Dims == {<<a>> : a \in Sizes} \cup {<<a, b>> : a \in Sizes, b \in Sizes}

NoModule ==
  [output_shape |-> <<>>, input0_shape |-> <<>>, weight_shape |-> <<>>,
   unfolded_input |-> NoTensor, out_channels |-> 0]

\* Layers with batch size n, input features i, output features o, and a
\* weight with one row of input-shaped entries per output channel.
ConvLayers ==
  {[output_shape |-> <<n>> \o o, input0_shape |-> <<n>> \o i,
    weight_shape |-> <<o[1]>> \o i,
    unfolded_input |-> NoTensor, out_channels |-> 0] :
      n \in Sizes, o \in Dims, i \in Dims}

NoWCall ==
  [fn |-> "none", arg |-> NoTensor, sum_batch |-> FALSE,
   rec |-> WrapperRecord(FALSE, FALSE, NoTensor, NoTensor, NoTensor, Err("none"))]

\* A shape and the shapes one step away from it: one axis longer, the last
\* axis missing, one more axis.
Perturb(s) ==
  {s} \cup {[s EXCEPT ![i] = s[i] + 1] : i \in 1..Len(s)}
      \cup {Front(s), s \o <<1>>}

OldLayout(recorded_shape) ==
  {<<recorded_shape[1], Prod(Tail(recorded_shape)), V>> : V \in Sizes}

NewLayout(recorded_shape) ==
  {<<V, recorded_shape[1]>> \o Tail(recorded_shape) : V \in Sizes}

WeightLayout(weight_shape) ==
  {<<V>> \o weight_shape : V \in Sizes}
    \cup {<<V, N>> \o weight_shape : V \in Sizes, N \in Sizes}

\* Tensors of the shapes in S (every seed) and of the shapes one step away
\* from them (one seed: a rejected input's elements are never read).
Inputs(S) ==
  {Fill(s, seed) : s \in S, seed \in Seeds}
    \cup {Fill(p, 1) : p \in UNION {Perturb(s) : s \in S}}

\* The argument of the next converter call: a fresh input, or the result of
\* the previous call.
Args(fresh) ==
  IF calls = <<>> THEN fresh
  ELSE IF calls[Len(calls)].out.kind = "ok" THEN {calls[Len(calls)].out.val}
  ELSE {}

CanConvert == component = "conv" /\ wcall.fn = "none" /\ Len(calls) < MaxCalls

Record(fn, arg, sum_batch, out) ==
  /\ calls' = Append(calls, [fn |-> fn, arg |-> arg, sum_batch |-> sum_batch, out |-> out])
  /\ UNCHANGED <<component, module, wcall, kron, extension, hbp, accumulated, received>>

NoKron ==
  [op |-> "none", factors |-> <<>>, v |-> NoTensor, k |-> 0, equation |-> <<>>,
   out |-> Err("none")]

NoExtension == [bp_strategy |-> "none", ea_strategy |-> "none", mat |-> NoTensor]

NoHbp == [cls |-> "none", param |-> "none", kind |-> "none", factors |-> <<>>]

\* The variables of the parts a behaviour does not exercise.
ConvIdle == calls = <<>> /\ wcall = NoWCall

KronIdle == kron = NoKron

HbpIdle == extension = NoExtension /\ hbp = NoHbp

AccumulateIdle == accumulated = {} /\ received = <<>>

InitConv ==
  /\ component = "conv"
  /\ module \in ConvLayers
  /\ calls = <<>>
  /\ wcall = NoWCall
  /\ KronIdle /\ HbpIdle /\ AccumulateIdle

CallNewOutputConvention ==
  /\ CanConvert
  /\ \E arg \in Args(Inputs(OldLayout(module.output_shape))) :
       Record("new_output_convention", arg, FALSE, new_output_convention(arg, module))

CallOldOutputConvention ==
  /\ CanConvert
  /\ \E arg \in Args(Inputs(NewLayout(module.output_shape))) :
       Record("old_output_convention", arg, FALSE, old_output_convention(arg, module))

CallNewInputConvention ==
  /\ CanConvert
  /\ \E arg \in Args(Inputs(OldLayout(module.input0_shape))) :
       Record("new_input_convention", arg, FALSE, new_input_convention(arg, module))

CallOldInputConvention ==
  /\ CanConvert
  /\ \E arg \in Args(Inputs(NewLayout(module.input0_shape))) :
       Record("old_input_convention", arg, FALSE, old_input_convention(arg, module))

CallOldWeightConvention ==
  /\ CanConvert
  /\ \E arg \in Args(Inputs(WeightLayout(module.weight_shape))), sum_batch \in BOOLEAN :
       Record("old_weight_convention", arg, sum_batch,
              old_weight_convention(arg, module, sum_batch))

\* Inputs of a wrapped call: [N, F] and [N, F, V] and the shapes next to them.
WrapperInputs(recorded_shape) ==
  Inputs(OldLayout(recorded_shape)
           \cup {<<recorded_shape[1], Prod(Tail(recorded_shape))>>})

CanWrap == component = "conv" /\ wcall.fn = "none" /\ calls = <<>>

Wrapped(fn, arg, sum_batch, rec) ==
  /\ wcall' = [fn |-> fn, arg |-> arg, sum_batch |-> sum_batch, rec |-> rec]
  /\ UNCHANGED <<component, module, calls, kron, extension, hbp, accumulated, received>>

CallJacT ==
  /\ CanWrap
  /\ \E mat \in WrapperInputs(module.output_shape) :
       Wrapped("jac_t", mat, FALSE,
               jac_t_new_shape_convention(module, mat, FALSE))

CallWeightJacT ==
  /\ CanWrap
  /\ \E mat \in WrapperInputs(module.output_shape), sum_batch \in BOOLEAN :
       Wrapped("weight_jac_t", mat, sum_batch,
               weight_jac_t_new_shape_convention(module, mat, sum_batch))

CallJac ==
  /\ CanWrap
  /\ \E mat \in WrapperInputs(module.input0_shape) :
       Wrapped("jac", mat, FALSE,
               jac_new_shape_convention(module, mat, FALSE))

NextConv ==
  \/ CallNewOutputConvention
  \/ CallOldOutputConvention
  \/ CallNewInputConvention
  \/ CallOldInputConvention
  \/ CallOldWeightConvention
  \/ CallJacT
  \/ CallWeightJacT
  \/ CallJac

SpecConv == InitConv /\ [][NextConv]_vars

(***************************************************************************)
(* Calls into the Kronecker-factor algebra                                 *)
(***************************************************************************)
\* Largest number of factors handed to vp_einsum_equation.
MaxFactors == 14

Matrices == {Fill(<<r, c>>, seed) : r \in Sizes, c \in Sizes, seed \in Seeds}

\* Tensors that are not matrices: a vector and a rank-3 tensor.
NonMatrices == {Fill(<<2>>, 1), Fill(<<1, 2, 1>>, 1)}

Factors == Matrices \cup NonMatrices

FactorLists(F) ==
  {<<>>} \cup {<<A>> : A \in F} \cup {<<A, B>> : A \in F, B \in F}

FactorTriples == {<<A, B, C>> : A \in Factors, B \in Factors, C \in Factors}

\* k copies of the 1 x 1 matrix [[2]].
UnitFactors(k) == [i \in 1..k |-> Tensor(<<1, 1>>, <<2>>)]

\* Vectors of every length up to one more than the largest column count, and
\* a rank-2 tensor in place of a vector.
Vectors ==
  {Fill(<<n>>, seed) : n \in 1..(MaxDim * MaxDim + 1), seed \in Seeds}
    \cup {Fill(<<1, 1>>, 1)}

InitKron ==
  /\ component = "kron"
  /\ module = NoModule
  /\ kron = NoKron
  /\ ConvIdle /\ HbpIdle /\ AccumulateIdle

CanCallKron == component = "kron" /\ kron = NoKron

KronCall(op, factors, v, k, equation, out) ==
  /\ kron' = [op |-> op, factors |-> factors, v |-> v, k |-> k,
              equation |-> equation, out |-> out]
  /\ UNCHANGED <<component, module, calls, wcall, extension, hbp, accumulated, received>>

CallMatrixFromKronFacs ==
  /\ CanCallKron
  /\ \E factors \in FactorLists(Factors) \cup FactorTriples :
       KronCall("matrix_from_kron_facs", factors, NoTensor, Len(factors), <<>>,
                matrix_from_kron_facs(factors))

CallMatrixFromTwoKronFacs ==
  /\ CanCallKron
  /\ \E A \in Factors, B \in Factors :
       KronCall("matrix_from_two_kron_facs", <<A, B>>, NoTensor, 2, <<>>,
                matrix_from_two_kron_facs(A, B))

CallMultiplyVecWithKronFacs ==
  /\ CanCallKron
  /\ \E factors \in FactorLists(Factors) \cup {UnitFactors(k) : k \in 3..MaxFactors},
        v \in Vectors :
       KronCall("multiply_vec_with_kron_facs", factors, v, Len(factors), <<>>,
                multiply_vec_with_kron_facs(factors, v))

CallVpEinsumEquation ==
  /\ CanCallKron
  /\ \E k \in 0..MaxFactors :
       LET equation == vp_einsum_equation(k)
       IN  KronCall("vp_einsum_equation", <<>>, NoTensor, k, equation.eq,
                    Err(equation.kind))

NextKron ==
  \/ CallMatrixFromKronFacs
  \/ CallMatrixFromTwoKronFacs
  \/ CallMultiplyVecWithKronFacs
  \/ CallVpEinsumEquation

SpecKron == InitKron /\ [][NextKron]_vars

(***************************************************************************)
(* Calls of the HBP handlers                                               *)
(***************************************************************************)
\* Layers as the HBP handlers read them: out_channels and the unfolded input
\* X of shape [batch, rows, columns].
HbpLayers ==
  {[output_shape |-> <<>>, input0_shape |-> <<>>, weight_shape |-> <<>>,
    unfolded_input |-> Fill(<<n, i, k>>, seed), out_channels |-> c] :
      n \in Sizes, i \in Sizes, k \in Sizes, c \in Sizes, seed \in Seeds}

\* The extension's strategies and the backpropagated square-root matrix
\* [batch, out_channels * pixels, V] in its context.
HbpExtensions(layer) ==
  {[bp_strategy |-> bp, ea_strategy |-> ea,
    mat |-> Fill(<<layer.unfolded_input.shape[1], layer.out_channels * px, V>>, seed)] :
      bp \in BackpropStrategies, ea \in ExpectationApproximations,
      px \in Sizes, V \in Sizes, seed \in Seeds}

InitHbp ==
  /\ component = "hbp"
  /\ module \in HbpLayers
  /\ extension \in HbpExtensions(module)
  /\ hbp = NoHbp
  /\ ConvIdle /\ KronIdle /\ AccumulateIdle

CanCallHbp == component = "hbp" /\ hbp = NoHbp

HbpCall(cls, param, outcome) ==
  /\ hbp' = [cls |-> cls, param |-> param, kind |-> outcome.kind,
             factors |-> outcome.factors]
  /\ UNCHANGED <<component, module, calls, wcall, kron, extension, accumulated, received>>

CallHBPConv2dWeight ==
  /\ CanCallHbp
  /\ HbpCall("HBPConv2d", "weight", HBPConv2d_weight(module, extension))

CallHBPConv2dBias ==
  /\ CanCallHbp
  /\ HbpCall("HBPConv2d", "bias", HBPConv2d_bias(module, extension))

CallHBPConv2dConcatWeight ==
  /\ CanCallHbp
  /\ HbpCall("HBPConv2dConcat", "weight", HBPConv2dConcat_weight(module, extension))

NextHbp ==
  \/ CallHBPConv2dWeight
  \/ CallHBPConv2dBias
  \/ CallHBPConv2dConcatWeight

SpecHbp == InitHbp /\ [][NextHbp]_vars

(***************************************************************************)
(* Merges at a branch point                                                *)
(***************************************************************************)
\* Keys and values of the contributions, and the number of merges at one node.
MaxKeys == 2

MaxValue == 2

MaxMerges == 2

\* Every dict over the keys 1..MaxKeys with values in 1..MaxValue.
Contributions ==
  UNION {[K -> 1..MaxValue] : K \in SUBSET (1..MaxKeys)}

AsPairs(f) == {<<k, f[k]>> : k \in DOMAIN f}

\* The first contribution to reach the node is stored as it is; each later
\* one is merged by the extension's accumulate_backpropagated_quantities.
InitAccumulate ==
  /\ component \in {"diag_h", "diag_h_batch"}
  /\ module = NoModule
  /\ \E first \in Contributions :
       /\ accumulated = AsPairs(first)
       /\ received = <<AsPairs(first)>>
  /\ ConvIdle /\ KronIdle /\ HbpIdle

Merge(result, other) ==
  /\ accumulated' = result
  /\ received' = Append(received, other)
  /\ UNCHANGED <<component, module, calls, wcall, kron, extension, hbp>>

DiagHessianAccumulate ==
  /\ component = "diag_h"
  /\ Len(received) <= MaxMerges
  /\ \E other \in Contributions :
       Merge(DiagHessian_accumulate_backpropagated_quantities(accumulated, AsPairs(other)),
             AsPairs(other))

BatchDiagHessianAccumulate ==
  /\ component = "diag_h_batch"
  /\ Len(received) <= MaxMerges
  /\ \E other \in Contributions :
       Merge(BatchDiagHessian_accumulate_backpropagated_quantities(accumulated, AsPairs(other)),
             AsPairs(other))

NextAccumulate ==
  \/ DiagHessianAccumulate
  \/ BatchDiagHessianAccumulate

SpecAccumulate == InitAccumulate /\ [][NextAccumulate]_vars

(***************************************************************************)
(* The whole core                                                          *)
(***************************************************************************)
Init == InitConv \/ InitKron \/ InitHbp \/ InitAccumulate

Next == NextConv \/ NextKron \/ NextHbp \/ NextAccumulate

Spec == Init /\ [][Next]_vars


(***************************************************************************)
(* Properties of the shape conventions                                     *)
(***************************************************************************)
IsOldOutputLayout(t) ==
  /\ Rank(t) = 3
  /\ t.shape[1] = module.output_shape[1]
  /\ t.shape[2] = Prod(Tail(module.output_shape))

IsNewOutputLayout(t) ==
  /\ Rank(t) = Len(module.output_shape) + 1
  /\ SubSeq(t.shape, 2, Rank(t)) = module.output_shape

\* C1: round trip of the output conventions.  new_output_convention accepts
\* every old-layout tensor [N, prod(featureDims), V] and old_output_convention
\* maps its result back to the same tensor, shape and elements; and
\* old_output_convention accepts every new-layout tensor [V, N, *featureDims]
\* and new_output_convention maps its result back to the same tensor.
C1_OutputRoundTrip ==
  /\ \A i \in 1..Len(calls) :
       /\ (calls[i].fn = "new_output_convention" /\ IsOldOutputLayout(calls[i].arg))
            => calls[i].out.kind = "ok"
       /\ (calls[i].fn = "old_output_convention" /\ IsNewOutputLayout(calls[i].arg))
            => calls[i].out.kind = "ok"
  /\ \A i \in 1..(Len(calls) - 1) :
       /\ ( /\ calls[i].fn = "new_output_convention"
            /\ calls[i].out.kind = "ok"
            /\ calls[i + 1].fn = "old_output_convention" )
            => calls[i + 1].out = Ok(calls[i].arg)
       /\ ( /\ calls[i].fn = "old_output_convention"
            /\ calls[i].out.kind = "ok"
            /\ calls[i + 1].fn = "new_output_convention" )
            => calls[i + 1].out = Ok(calls[i].arg)

\* An old-layout tensor with N = 2, two feature axes of size 2, V = 2 and
\* pairwise distinct elements has gone old -> new -> old.
C1_Witness ==
  /\ Len(calls) >= 2
  /\ module.output_shape = <<2, 2, 2>>
  /\ calls[1].fn = "new_output_convention"
  /\ calls[1].arg = Fill(<<2, 4, 2>>, 1)
  /\ calls[1].out.kind = "ok"
  /\ calls[1].out.val.shape = <<2, 2, 2, 2>>
  /\ calls[1].out.val.data # calls[1].arg.data
  /\ calls[2].fn = "old_output_convention"
  /\ calls[2].out.kind = "ok"

\* The same for the other direction: new -> old -> new.
C1_WitnessNewOldNew ==
  /\ Len(calls) >= 2
  /\ module.output_shape = <<2, 2, 2>>
  /\ calls[1].fn = "old_output_convention"
  /\ calls[1].arg = Fill(<<2, 2, 2, 2>>, 1)
  /\ calls[1].out.kind = "ok"
  /\ calls[2].fn = "new_output_convention"
  /\ calls[2].out.kind = "ok"

(***************************************************************************)
(* Properties of the wrappers                                              *)
(***************************************************************************)
\* The wrapper named fn applied to mat.
ApplyWrapper(fn, mat, sum_batch) ==
  CASE fn = "jac_t" -> jac_t_new_shape_convention(module, mat, sum_batch)
    [] fn = "weight_jac_t" ->
         weight_jac_t_new_shape_convention(module, mat, sum_batch)
    [] OTHER -> jac_new_shape_convention(module, mat, sum_batch)

\* The recorded shape the wrapper named fn converts its input with.
WrapperInputShape(fn) ==
  IF fn = "jac" THEN module.input0_shape ELSE module.output_shape

\* The old-layout shapes the wrapper named fn converts the handler's result to.
WrapperResultShape(fn, sum_batch, V) ==
  CASE fn = "jac_t" -> <<module.input0_shape[1], Prod(Tail(module.input0_shape)), V>>
    [] fn = "jac" -> <<module.output_shape[1], Prod(Tail(module.output_shape)), V>>
    [] OTHER -> IF sum_batch THEN <<Prod(module.weight_shape), V>>
                ELSE <<module.output_shape[1], Prod(module.weight_shape), V>>

\* C5: order of the steps of the three wrappers.  A rank-2 input is promoted
\* to [N, F, 1]; the handler is called only with the old -> new conversion of
\* the (promoted) input, a [V, N, *dims] tensor; its result is converted
\* new -> old; the trailing V axis is dropped iff the input was rank-2.  So a
\* rank-2 input gives a result without V axis, equal to the result for the
\* same input as [N, F, 1] with the last axis dropped, and a rank-3 input
\* gives a result whose last axis is the input's V.
C5_WrapperSteps ==
  wcall.fn # "none" =>
    LET r == wcall.rec
        mat == wcall.arg
        recorded == WrapperInputShape(wcall.fn)
        V == IF Rank(mat) = 2 THEN 1 ELSE mat.shape[Rank(mat)]
        promoted == ApplyWrapper(wcall.fn, add_V_dim(mat), wcall.sum_batch)
    IN  /\ r.is_vec = (Rank(mat) = 2)
        /\ r.called =>
             /\ r.handler_in.shape = <<V, recorded[1]>> \o Tail(recorded)
             /\ Numel(r.handler_in) = Numel(mat)
        /\ r.out.kind = "ok" =>
             /\ r.called
             /\ r.converted.shape = WrapperResultShape(wcall.fn, wcall.sum_batch, V)
             /\ Numel(r.converted) = Numel(r.handler_out)
             /\ r.is_vec =>
                  /\ r.out.val.shape = Front(r.converted.shape)
                  /\ promoted.out.kind = "ok"
                  /\ promoted.out.val.shape = r.out.val.shape \o <<1>>
                  /\ promoted.out.val.data = r.out.val.data
             /\ ~r.is_vec =>
                  /\ r.out.val = r.converted
                  /\ r.out.val.shape[Rank(r.out.val)] = mat.shape[3]
        /\ ( \/ mat.shape = <<recorded[1], Prod(Tail(recorded))>>
             \/ (Rank(mat) = 3 /\ SubSeq(mat.shape, 1, 2) = <<recorded[1], Prod(Tail(recorded))>>) )
             => r.out.kind = "ok"

\* A rank-2 input [2, 4] went through the transposed-Jacobian wrapper of a
\* layer whose input and output features differ, and came back rank-2.
C5_Witness ==
  /\ wcall.fn = "jac_t"
  /\ module.output_shape = <<2, 2, 2>>
  /\ module.input0_shape = <<2, 2>>
  /\ wcall.arg = Fill(<<2, 4>>, 1)
  /\ wcall.rec.is_vec
  /\ wcall.rec.handler_in.shape = <<1, 2, 2, 2>>
  /\ wcall.rec.out.kind = "ok"
  /\ wcall.rec.out.val.shape = <<2, 2>>

\* A rank-3 input with V = 2 went through the parameter-Jacobian wrapper
\* without batch summation.
C5_WitnessStack ==
  /\ wcall.fn = "weight_jac_t"
  /\ ~wcall.sum_batch
  /\ ~wcall.rec.is_vec
  /\ wcall.rec.out.kind = "ok"
  /\ Rank(wcall.rec.out.val) = 3
  /\ wcall.rec.out.val.shape[3] = 2

(***************************************************************************)
(* Properties of old_weight_convention                                     *)
(***************************************************************************)
\* out[i, v] = in[v, unflatten(i)] for in of shape [V, *weight_shape].
SummedWeightElements(in, out) ==
  LET V == in.shape[1]
      numel == Prod(module.weight_shape)
  IN  /\ out.shape = <<numel, V>>
      /\ \A i \in 0..(numel - 1), v \in 0..(V - 1) :
           out.data[i * V + v + 1] = in.data[v * numel + i + 1]

\* out[n, i, v] = in[v, n, unflatten(i)] for in of shape [V, N, *weight_shape].
BatchedWeightElements(in, out) ==
  LET V == in.shape[1]
      N == in.shape[2]
      numel == Prod(module.weight_shape)
  IN  /\ out.shape = <<N, numel, V>>
      /\ \A n \in 0..(N - 1), i \in 0..(numel - 1), v \in 0..(V - 1) :
           out.data[(n * numel + i) * V + v + 1] = in.data[(v * N + n) * numel + i + 1]

IsSummedWeightShape(shape) ==
  /\ Len(shape) = Len(module.weight_shape) + 1
  /\ Tail(shape) = module.weight_shape

\* [V, N, *weight_shape] for any N.
IsBatchedWeightShape(shape) ==
  /\ Len(shape) = Len(module.weight_shape) + 2
  /\ Tail(Tail(shape)) = module.weight_shape

\* [V, N, *weight_shape] with N the layer's batch size.
IsLayerBatchedWeightShape(shape) ==
  /\ IsBatchedWeightShape(shape)
  /\ shape[2] = module.output_shape[1]

WeightCalls == {i \in 1..Len(calls) : calls[i].fn = "old_weight_convention"}

\* C6 as stated: with sum_batch the accepted inputs are exactly
\* [V, *weight_shape]; without, exactly [V, N, *weight_shape] with N the
\* layer's batch size; every other input fails; results are [weight_numel, V]
\* and [N, weight_numel, V] with the elements transposed, element count kept.
C6_AsStated ==
  \A c \in WeightCalls :
    LET in == calls[c].arg
        out == calls[c].out
    IN  IF calls[c].sum_batch
        THEN /\ out.kind = "ok" <=> IsSummedWeightShape(in.shape)
             /\ out.kind = "ok" => SummedWeightElements(in, out.val)
        ELSE /\ out.kind = "ok" <=> IsLayerBatchedWeightShape(in.shape)
             /\ out.kind = "ok" => BatchedWeightElements(in, out.val)

\* C6 amended: without sum_batch the accepted inputs are exactly
\* [V, N, *weight_shape] for any N, read from the input's second axis and
\* never compared with the layer's batch size.  The rest is as stated; a
\* rejected input fails with AssertionError, or with IndexError when it has
\* fewer than two axes, and returns nothing.
C6_OldWeightConvention ==
  \A c \in WeightCalls :
    LET in == calls[c].arg
        out == calls[c].out
    IN  /\ IF calls[c].sum_batch
           THEN /\ out.kind = "ok" <=> IsSummedWeightShape(in.shape)
                /\ out.kind = "ok" => SummedWeightElements(in, out.val)
           ELSE /\ out.kind = "ok" <=> IsBatchedWeightShape(in.shape)
                /\ out.kind = "ok" => BatchedWeightElements(in, out.val)
        /\ out.kind = "ok" => Numel(out.val) = Numel(in)
        /\ out.kind # "ok" =>
             /\ out.val = NoTensor
             /\ out.kind = IF Rank(in) < 2 THEN "IndexError" ELSE "AssertionError"

\* A [V, N, *weight_shape] input whose N is not the layer's batch size was
\* accepted without sum_batch and transposed to [N, weight_numel, V].
C6_Witness ==
  /\ Len(calls) = 1
  /\ calls[1].fn = "old_weight_convention"
  /\ ~calls[1].sum_batch
  /\ module.output_shape[1] = 1
  /\ module.weight_shape = <<2, 2>>
  /\ calls[1].arg = Fill(<<2, 2, 2, 2>>, 1)
  /\ calls[1].out.kind = "ok"
  /\ calls[1].out.val.shape = <<2, 4, 2>>

\* A [V, *weight_shape] input was accepted with sum_batch.
C6_WitnessSummed ==
  /\ Len(calls) = 1
  /\ calls[1].fn = "old_weight_convention"
  /\ calls[1].sum_batch
  /\ calls[1].arg = Fill(<<2, 2, 2>>, 1)
  /\ calls[1].out.kind = "ok"
  /\ calls[1].out.val.shape = <<4, 2>>

(***************************************************************************)
(* Properties of the Kronecker-factor algebra                              *)
(***************************************************************************)
\* Entry (i, j), counted from 0, of the matrix M.
Entry(M, i, j) == M.data[i * M.shape[2] + j + 1]

\* The matrix-vector product M @ v.
MatVec(M, v) ==
  Tensor(<<M.shape[1]>>,
         [i \in 1..M.shape[1] |->
            SumSeq([j \in 1..M.shape[2] |-> Entry(M, i - 1, j - 1) * v.data[j]])])

AllMatrices(factors) == \A i \in 1..Len(factors) : Rank(factors[i]) = 2

\* C2: for matrices A (r1 x c1), B (r2 x c2) and a vector v of length c1*c2,
\* multiply_vec_with_kron_facs([A, B], v) is matrix_from_kron_facs([A, B]) @ v:
\* a vector of length r1*r2 whose entry i1*r2+i2 is the sum over j1, j2 of
\* A[i1,j1] * B[i2,j2] * v[j1*c2+j2].
C2_FactoredProduct ==
  ( /\ kron.op = "multiply_vec_with_kron_facs"
    /\ Len(kron.factors) = 2
    /\ AllMatrices(kron.factors)
    /\ kron.v.shape = <<kron.factors[1].shape[2] * kron.factors[2].shape[2]>> ) =>
    LET A == kron.factors[1]
        B == kron.factors[2]
        r1 == A.shape[1]
        c1 == A.shape[2]
        r2 == B.shape[1]
        c2 == B.shape[2]
        full == matrix_from_kron_facs(kron.factors)
    IN  /\ kron.out.kind = "ok"
        /\ kron.out.val.shape = <<r1 * r2>>
        /\ \A i1 \in 0..(r1 - 1), i2 \in 0..(r2 - 1) :
             kron.out.val.data[i1 * r2 + i2 + 1] =
               SumSeq([q \in 1..(c1 * c2) |->
                         Entry(A, i1, (q - 1) \div c2) * Entry(B, i2, (q - 1) % c2)
                           * kron.v.data[q]])
        /\ full.kind = "ok"
        /\ kron.out.val = MatVec(full.val, kron.v)

\* The product of a 1 x 2 and a 2 x 2 factor with a vector of 4 distinct
\* elements was computed.
C2_Witness ==
  /\ kron.op = "multiply_vec_with_kron_facs"
  /\ kron.factors = <<Fill(<<1, 2>>, 1), Fill(<<2, 2>>, 1)>>
  /\ kron.v = Fill(<<4>>, 1)
  /\ kron.out.kind = "ok"
  /\ kron.out.val.shape = <<2>>

\* C4 as stated: matrix_from_kron_facs fails with an error whenever the list
\* is empty or holds a factor that is not rank-2, and returns a matrix only
\* for a non-empty list of rank-2 factors.
C4_AsStated ==
  kron.op = "matrix_from_kron_facs" =>
    /\ (kron.factors = <<>> \/ ~AllMatrices(kron.factors))
         => kron.out.kind \in {"AssertionError", "RuntimeError"}
    /\ kron.out.kind = "ok" => (kron.factors # <<>> /\ AllMatrices(kron.factors))

\* C4 amended: matrix_from_kron_facs raises AssertionError whenever a factor
\* at any position is not rank-2; for the empty list it raises nothing and
\* returns None, which is no matrix; it returns a matrix exactly when the
\* list is non-empty and every factor is rank-2.
C4_MatrixFromKronFacs ==
  kron.op = "matrix_from_kron_facs" =>
    /\ ~AllMatrices(kron.factors) <=> kron.out.kind = "AssertionError"
    /\ kron.factors = <<>> <=> kron.out.kind = "None"
    /\ (kron.factors # <<>> /\ AllMatrices(kron.factors)) <=> kron.out.kind = "ok"
    /\ kron.out.kind = "ok" <=> Rank(kron.out.val) = 2

\* A list whose last of three factors is not a matrix was rejected.
C4_Witness ==
  /\ kron.op = "matrix_from_kron_facs"
  /\ Len(kron.factors) = 3
  /\ Rank(kron.factors[1]) = 2
  /\ Rank(kron.factors[2]) = 2
  /\ Rank(kron.factors[3]) = 3
  /\ kron.out.kind = "AssertionError"

\* The empty list was passed and None came back.
C4_WitnessEmpty ==
  /\ kron.op = "matrix_from_kron_facs"
  /\ kron.factors = <<>>
  /\ kron.out.kind = "None"

\* C7: matrix_from_two_kron_facs(A, B) for A (r1 x c1), B (r2 x c2) has shape
\* (r1*r2, c1*c2) and entry (i1*r2+i2, j1*c2+j2) = A[i1,j1] * B[i2,j2]; and
\* matrix_from_kron_facs([A, B, C]) equals
\* matrix_from_kron_facs([matrix_from_kron_facs([A, B]), C]).
C7_KroneckerProduct ==
  /\ ( /\ kron.op = "matrix_from_two_kron_facs"
       /\ AllMatrices(kron.factors) ) =>
       LET A == kron.factors[1]
           B == kron.factors[2]
           r1 == A.shape[1]
           c1 == A.shape[2]
           r2 == B.shape[1]
           c2 == B.shape[2]
       IN  /\ kron.out.kind = "ok"
           /\ kron.out.val.shape = <<r1 * r2, c1 * c2>>
           /\ Numel(kron.out.val) = r1 * r2 * c1 * c2
           /\ \A i1 \in 0..(r1 - 1), i2 \in 0..(r2 - 1),
                 j1 \in 0..(c1 - 1), j2 \in 0..(c2 - 1) :
                Entry(kron.out.val, i1 * r2 + i2, j1 * c2 + j2)
                  = Entry(A, i1, j1) * Entry(B, i2, j2)
  /\ ( /\ kron.op = "matrix_from_kron_facs"
       /\ Len(kron.factors) = 3
       /\ AllMatrices(kron.factors) ) =>
       LET AB == matrix_from_kron_facs(SubSeq(kron.factors, 1, 2))
       IN  /\ AB.kind = "ok"
           /\ kron.out.kind = "ok"
           /\ kron.out = matrix_from_kron_facs(<<AB.val, kron.factors[3]>>)

\* The product of a 2 x 2 and a 1 x 2 factor with distinct entries was built.
C7_Witness ==
  /\ kron.op = "matrix_from_two_kron_facs"
  /\ kron.factors = <<Fill(<<2, 2>>, 1), Fill(<<1, 2>>, 1)>>
  /\ kron.out.kind = "ok"
  /\ kron.out.val.shape = <<2, 4>>

\* The product of three factors, none of them 1 x 1, was built.
C7_WitnessTriple ==
  /\ kron.op = "matrix_from_kron_facs"
  /\ kron.factors = <<Fill(<<2, 1>>, 1), Fill(<<1, 2>>, 1), Fill(<<2, 2>>, 1)>>
  /\ kron.out.kind = "ok"
  /\ kron.out.val.shape = <<4, 4>>

\* C10: for k = 1..13 vp_einsum_equation(k) gives each factor its own row
\* letter and its own column letter, the 2k letters pairwise distinct, the
\* vector indexed by the column letters and the output by the row letters, in
\* factor order; for k > 13 the 26 letters are exhausted and the call, hence
\* multiply_vec_with_kron_facs on more than 13 factors, fails with an error
\* and returns neither an equation nor a product.
C10_EinsumLetters ==
  /\ (kron.op = "vp_einsum_equation" /\ kron.k >= 1 /\ 2 * kron.k <= max_letters) =>
       /\ kron.out.kind = "ok"
       /\ LET sides == SplitOn(kron.equation, "->")
              subs == SplitOn(sides[1], ",")
              outs == sides[2]
              rows == [f \in 1..kron.k |-> subs[f + 1][1]]
              cols == [f \in 1..kron.k |-> subs[f + 1][2]]
          IN  /\ Len(sides) = 2
              /\ Len(subs) = kron.k + 1
              /\ \A f \in 1..kron.k : Len(subs[f + 1]) = 2
              /\ Cardinality({rows[f] : f \in 1..kron.k} \cup {cols[f] : f \in 1..kron.k})
                   = 2 * kron.k
              /\ subs[1] = cols
              /\ outs = rows
  /\ (kron.op = "vp_einsum_equation" /\ 2 * kron.k > max_letters) =>
       /\ kron.out.kind = "StopIteration"
       /\ kron.equation = <<>>
  /\ ( /\ kron.op = "multiply_vec_with_kron_facs"
       /\ AllMatrices(kron.factors)
       /\ 2 * Len(kron.factors) > max_letters ) =>
       /\ kron.out.kind = "StopIteration"
       /\ kron.out.val = NoTensor
  /\ ( /\ kron.op = "multiply_vec_with_kron_facs"
       /\ kron.factors = UnitFactors(max_letters \div 2)
       /\ kron.v.shape = <<1>> ) =>
       /\ kron.out.kind = "ok"

\* multiply_vec_with_kron_facs was called on 14 factors and failed.
C10_Witness ==
  /\ kron.op = "multiply_vec_with_kron_facs"
  /\ Len(kron.factors) = 14
  /\ AllMatrices(kron.factors)
  /\ kron.v.shape = <<1>>
  /\ kron.out.kind = "StopIteration"

\* vp_einsum_equation(13) used all 26 letters.
C10_WitnessAllLetters ==
  /\ kron.op = "vp_einsum_equation"
  /\ kron.k = 13
  /\ kron.out.kind = "ok"
  /\ Len(kron.equation) = 13 + 3 * 13 + 1 + 13
  /\ kron.equation[Len(kron.equation)] = "y"

(***************************************************************************)
(* Properties of the HBP handlers                                          *)
(***************************************************************************)
Unimplemented ==
  \/ is_batch_average(extension.bp_strategy)
  \/ should_average_param_jac(extension.ea_strategy)

\* C3 as stated: every handler operation of the convolution family (weight
\* and bias of HBPConv2d, weight of HBPConv2dConcat) raises NotImplementedError
\* and returns no factor list when the BackpropStrategy is is_batch_average or
\* the ExpectationApproximation is the averaged variant.
C3_AsStated ==
  (hbp.cls # "none" /\ Unimplemented) =>
    (hbp.kind = "NotImplementedError" /\ hbp.factors = <<>>)

\* C3 amended: the weight operations of HBPConv2d and HBPConv2dConcat raise
\* NotImplementedError and return no factor list when the BackpropStrategy is
\* is_batch_average or the ExpectationApproximation is the averaged variant;
\* the bias operation raises it when the BackpropStrategy is
\* is_batch_average, and with is_sqrt it returns its one-factor list whatever
\* the ExpectationApproximation is.
C3_NotImplementedVariants ==
  /\ (hbp.param = "weight" /\ Unimplemented) =>
       (hbp.kind = "NotImplementedError" /\ hbp.factors = <<>>)
  /\ (hbp.param = "bias" /\ is_batch_average(extension.bp_strategy)) =>
       (hbp.kind = "NotImplementedError" /\ hbp.factors = <<>>)
  /\ (hbp.param = "bias" /\ is_sqrt(extension.bp_strategy)) =>
       (hbp.kind = "ok" /\ Len(hbp.factors) = 1)
  /\ hbp.kind = "NotImplementedError" => Unimplemented

\* bias was called with is_sqrt and the averaged expectation approximation,
\* and returned a factor.
C3_Witness ==
  /\ hbp.cls = "HBPConv2d"
  /\ hbp.param = "bias"
  /\ is_sqrt(extension.bp_strategy)
  /\ should_average_param_jac(extension.ea_strategy)
  /\ hbp.kind = "ok"
  /\ Len(hbp.factors) = 1

\* weight of HBPConv2dConcat was called with the averaged variant and raised.
C3_WitnessWeight ==
  /\ hbp.cls = "HBPConv2dConcat"
  /\ hbp.param = "weight"
  /\ is_sqrt(extension.bp_strategy)
  /\ should_average_param_jac(extension.ea_strategy)
  /\ hbp.kind = "NotImplementedError"

\* Element [b, i, p, c] of the square-root matrix [batch, channels * pixels, V]
\* read as [batch, channels, pixels, V].
SqrtAt(b, i, p, c) ==
  LET channels == module.out_channels
      pixels == extension.mat.shape[2] \div channels
      V == extension.mat.shape[3]
  IN  extension.mat.data[((b * channels + i) * pixels + p) * V + c + 1]

\* Sum over the pixels.
SqrtSummed(b, i, c) ==
  SumSeq([p \in 1..(extension.mat.shape[2] \div module.out_channels) |->
            SqrtAt(b, i, p - 1, c)])

\* The factor from the square-root quantity: entry (i, l) is the sum over the
\* batch and V of S[b, i, c] * S[b, l, c], S being the pixel sums.
IsSqrtFactor(F) ==
  LET channels == module.out_channels
      batch == extension.mat.shape[1]
      V == extension.mat.shape[3]
  IN  /\ DOMAIN F = {"shape", "data"}
      /\ F.shape = <<channels, channels>>
      /\ \A i \in 0..(channels - 1), l \in 0..(channels - 1) :
           Entry(F, i, l) =
             SumSeq([q \in 1..(batch * V) |->
                       SqrtSummed((q - 1) \div V, i, (q - 1) % V)
                         * SqrtSummed((q - 1) \div V, l, (q - 1) % V)])

\* The factor from the unfolded input X [batch, rows, columns]: entry (i, j)
\* is the sum over batch and columns of X[b, i, k] * X[b, j, k], divided by
\* the batch size.
IsInputFactor(F) ==
  LET X == module.unfolded_input
      batch == X.shape[1]
      rows == X.shape[2]
      columns == X.shape[3]
  IN  /\ DOMAIN F = {"shape", "data", "over"}
      /\ F.shape = <<rows, rows>>
      /\ F.over = batch
      /\ \A i \in 0..(rows - 1), j \in 0..(rows - 1) :
           Entry(F, i, j) =
             SumSeq([q \in 1..(batch * columns) |->
                       LET b == (q - 1) \div columns
                           k == (q - 1) % columns
                       IN  X.data[(b * rows + i) * columns + k + 1]
                             * X.data[(b * rows + j) * columns + k + 1]])

\* C9: with is_sqrt and the non-averaged expectation approximation, weight
\* returns exactly two factors, first the one from the square-root quantity,
\* then the one from the unfolded input over the batch size; bias returns
\* exactly one factor, the first factor of the weight list for the same
\* layer and backpropagated quantity; and no call changes the layer's
\* recorded context.
C9_SqrtFactors ==
  /\ [] ( ( /\ hbp.cls # "none"
            /\ is_sqrt(extension.bp_strategy)
            /\ ~should_average_param_jac(extension.ea_strategy) ) =>
          /\ hbp.kind = "ok"
          /\ hbp.param = "weight" =>
               /\ Len(hbp.factors) = 2
               /\ IsSqrtFactor(hbp.factors[1])
               /\ IsInputFactor(hbp.factors[2])
          /\ hbp.param = "bias" =>
               /\ Len(hbp.factors) = 1
               /\ IsSqrtFactor(hbp.factors[1])
               /\ \E w \in {HBPConv2d_weight(module, extension)} :
                    hbp.factors[1] = w.factors[1] )
  /\ [][hbp' # hbp => (module' = module /\ extension' = extension)]_vars

\* weight was called on a layer with 2 channels, 2 pixels, batch size 2 and an
\* unfolded input with 2 rows, and returned two factors.
C9_Witness ==
  /\ hbp.cls = "HBPConv2d"
  /\ hbp.param = "weight"
  /\ is_sqrt(extension.bp_strategy)
  /\ ~should_average_param_jac(extension.ea_strategy)
  /\ module.out_channels = 2
  /\ module.unfolded_input = Fill(<<2, 2, 2>>, 1)
  /\ extension.mat = Fill(<<2, 4, 2>>, 1)
  /\ hbp.kind = "ok"
  /\ Len(hbp.factors) = 2

\* bias was called on the same layer and returned one factor.
C9_WitnessBias ==
  /\ hbp.cls = "HBPConv2d"
  /\ hbp.param = "bias"
  /\ is_sqrt(extension.bp_strategy)
  /\ ~should_average_param_jac(extension.ea_strategy)
  /\ module.out_channels = 2
  /\ extension.mat = Fill(<<2, 4, 2>>, 1)
  /\ hbp.kind = "ok"
  /\ Len(hbp.factors) = 1

C8_LastWins ==
  component \in {"diag_h", "diag_h_batch"} =>
    /\ DictKeys(accumulated) = UNION {DictKeys(received[i]) : i \in 1..Len(received)}
    /\ \A p \in accumulated :
         \E i \in 1..Len(received) :
           /\ p \in received[i]
           /\ \A j \in (i + 1)..Len(received) : p[1] \notin DictKeys(received[j])

\* Two contributions with the same key and different values were merged.
C8_Overlap ==
  /\ Len(received) = 2
  /\ received[1] = {<<1, 1>>}
  /\ received[2] = {<<1, 2>>}

====
